---- MODULE Spec2Model ----
(***************************************************************************)
(* Model of the completion pipeline of twinny: the ChatService of          *)
(* src/src/extension/utils.ts (stream callbacks, cancellation, session     *)
(* start) and the SidebarProvider entry points of                          *)
(* src/src/extension/providers/sidebar.ts.                                 *)
(*                                                                         *)
(* Texts are sequences of one-character strings.  The transport            *)
(* (streamResponse of ./stream) is not part of the sources; its behaviour  *)
(* is taken from the specification (sections 4.5, 5 and 7).                *)
(***************************************************************************)
EXTENDS Integers, Sequences, FiniteSets

(* ------------------------------ bounds -------------------------------- *)

\* number of transport streams that may be opened in one behaviour
MaxSessions == 2
\* number of requests, cancels and transport callbacks in one behaviour
MaxSteps == 7
\* length of the content given to simpleChunk
MaxContentLen == 4
\* greatest minSize, maxSize and overlap of the chunk options
MaxSize == 5
\* number of fragments given to combineChunks, and their length
MaxFragments == 3
MaxFragmentLen == 3
\* number of messages of the conversation given to streamChatCompletion
MaxMessages == 3

Sessions == 1..MaxSessions

(* ------------------------------ values -------------------------------- *)

\* the JavaScript value undefined, distinct from every text
undefined == <<"$undefined">>
\* the outcome "the expression raised a TypeError"
Throw == <<"$TypeError">>
\* the text JavaScript's string concatenation gives for the value undefined
UndefinedText == <<"u", "n", "d", "e", "f", "i", "n", "e", "d">>

WhiteSpace == {" ", "\n", "\t"}

\* String.prototype.trimStart
RECURSIVE trimStart(_)
trimStart(t) ==
  IF t = <<>> THEN <<>>
  ELSE IF Head(t) \in WhiteSpace THEN trimStart(Tail(t))
  ELSE t

\* the conversion string + value applies to its right operand
ToText(v) == IF v = undefined THEN UndefinedText ELSE v

\* JavaScript truthiness of a text-or-undefined value
Truthy(v) == v # undefined /\ v # <<>>

\* apiProviders, and the absence of an active provider
Ollama == "ollama"
OpenWebUI == "openwebui"
LlamaCpp == "llamacpp"
LiteLLM == "litellm"
OtherProvider == "other"
NoProvider == "none"
Providers == {Ollama, OpenWebUI, LlamaCpp, LiteLLM, OtherProvider}

(* A parsed stream chunk (StreamResponse).  choices is "absent" (no such   *)
(* field), "empty" (an empty list) or "one" (choices[0] exists); hasDelta   *)
(* says whether choices[0].delta exists.                                    *)
Payload(def, ch, hd, dc, tx, co, re) ==
  [defined |-> def, choices |-> ch, hasDelta |-> hd, deltaContent |-> dc,
   text |-> tx, content |-> co, response |-> re]

ChatDelta(t) == Payload(TRUE, "one", TRUE, t, undefined, undefined, undefined)
NoDeltaContent == Payload(TRUE, "one", TRUE, undefined, undefined, undefined, undefined)
NoDelta == Payload(TRUE, "one", FALSE, undefined, undefined, undefined, undefined)
EmptyChoices == Payload(TRUE, "empty", FALSE, undefined, undefined, undefined, undefined)
FlatContent(t) == Payload(TRUE, "absent", FALSE, undefined, undefined, t, undefined)

\* the chunks a stream may deliver
Payloads ==
  { ChatDelta(<<"a">>), ChatDelta(<<" ">>), EmptyChoices, FlatContent(<<"b">>) }

\* data?.choices[0].delta?.content
DeltaContentOpt(data) ==
  IF ~data.defined THEN undefined
  ELSE IF data.choices # "one" THEN Throw
  ELSE IF ~data.hasDelta THEN undefined
  ELSE data.deltaContent

\* data?.choices[0].delta.content
DeltaContent(data) ==
  IF ~data.defined THEN undefined
  ELSE IF data.choices # "one" THEN Throw
  ELSE IF ~data.hasDelta THEN Throw
  ELSE data.deltaContent

\* getChatDataFromProvider without its llamacpp case: llamacpp takes the
\* default branch
getChatDataFromProvider_NoLlamaCpp(provider, data) ==
  IF provider \in {Ollama, OpenWebUI} THEN
    IF DeltaContentOpt(data) = Throw THEN Throw
    ELSE IF Truthy(DeltaContentOpt(data)) THEN DeltaContent(data)
    ELSE <<>>
  ELSE
    IF DeltaContent(data) = Throw THEN Throw
    ELSE IF DeltaContent(data) = UndefinedText THEN <<>>
    ELSE IF Truthy(DeltaContentOpt(data)) THEN DeltaContent(data)
    ELSE <<>>

getChatDataFromProvider(provider, data) ==
  IF provider \in {Ollama, OpenWebUI} THEN
    IF DeltaContentOpt(data) = Throw THEN Throw
    ELSE IF Truthy(DeltaContentOpt(data)) THEN DeltaContent(data)
    ELSE <<>>
  ELSE IF provider = LlamaCpp THEN
    IF ~data.defined THEN undefined ELSE data.content
  ELSE
    IF DeltaContent(data) = Throw THEN Throw
    ELSE IF DeltaContent(data) = UndefinedText THEN <<>>
    ELSE IF Truthy(DeltaContentOpt(data)) THEN DeltaContent(data)
    ELSE <<>>

\* data?.choices[0].text
ChoiceText(data) ==
  IF ~data.defined THEN undefined
  ELSE IF data.choices # "one" THEN Throw
  ELSE data.text

getFimDataFromProvider(provider, data) ==
  IF provider \in {Ollama, OpenWebUI} THEN
    IF ~data.defined THEN undefined ELSE data.response
  ELSE IF provider = LlamaCpp THEN
    IF ~data.defined THEN undefined ELSE data.content
  ELSE IF provider = LiteLLM THEN DeltaContent(data)
  ELSE
    IF ~data.defined THEN undefined
    ELSE IF data.choices = "absent" THEN Throw
    ELSE IF data.choices = "empty" THEN undefined
    ELSE IF ChoiceText(data) = UndefinedText THEN <<>>
    ELSE IF Truthy(ChoiceText(data)) THEN ChoiceText(data)
    ELSE <<>>

(* --------------------------- chunk parsing ---------------------------- *)

\* the SSE marker 'data:'
DataPrefix == <<"d", "a", "t", "a", ":">>

\* String.prototype.startsWith
startsWith(t, p) == Len(t) >= Len(p) /\ SubSeq(t, 1, Len(p)) = p

\* String.prototype.indexOf, counted from 1; 0 when sep does not occur
RECURSIVE IndexFrom(_, _, _)
IndexFrom(t, sep, i) ==
  IF i + Len(sep) - 1 > Len(t) THEN 0
  ELSE IF SubSeq(t, i, i + Len(sep) - 1) = sep THEN i
  ELSE IndexFrom(t, sep, i + 1)

\* t.split(sep)[1]: what stands between the first occurrence of sep and the
\* next one (or the end); undefined when sep does not occur
SplitSecond(t, sep) ==
  IF IndexFrom(t, sep, 1) = 0 THEN undefined
  ELSE LET rest == SubSeq(t, IndexFrom(t, sep, 1) + Len(sep), Len(t))
       IN  IF IndexFrom(rest, sep, 1) = 0 THEN rest
           ELSE SubSeq(rest, 1, IndexFrom(rest, sep, 1) - 1)

\* the JSON text {"<key>":"<s>"} of an object with one string field
Quote == "\""
ObjectText(key, s) == <<"{", Quote>> \o key \o <<Quote, ":", Quote>> \o s \o <<Quote, "}">>

ContentKey == <<"c", "o", "n", "t", "e", "n", "t">>
ResponseKey == <<"r", "e", "s", "p", "o", "n", "s", "e">>

\* JSON whitespace is skipped at both ends
RECURSIVE trimEnd(_)
trimEnd(t) ==
  IF t = <<>> THEN <<>>
  ELSE IF t[Len(t)] \in WhiteSpace THEN trimEnd(SubSeq(t, 1, Len(t) - 1))
  ELSE t

\* the string s for which t is ObjectText(key, s), or Throw
FieldOf(t, key) ==
  LET open == <<"{", Quote>> \o key \o <<Quote, ":", Quote>>
      close == <<Quote, "}">>
      s == SubSeq(t, Len(open) + 1, Len(t) - Len(close))
  IN  IF /\ Len(t) >= Len(open) + Len(close)
         /\ SubSeq(t, 1, Len(open)) = open
         /\ SubSeq(t, Len(t) - Len(close) + 1, Len(t)) = close
         /\ \A i \in 1..Len(s) : s[i] # Quote
      THEN s
      ELSE Throw

\* the outcome "JSON.parse raised a SyntaxError"
SyntaxError == [defined |-> FALSE, threw |-> TRUE]

\* JSON.parse on the texts a stream delivers here: an object with the one
\* string field content or response, with whitespace around it; every other
\* text of RawChunks is no JSON text and raises
JSONParse(t) ==
  LET body == trimEnd(trimStart(t))
  IN  IF FieldOf(body, ContentKey) # Throw
      THEN Payload(TRUE, "absent", FALSE, undefined, undefined,
                   FieldOf(body, ContentKey), undefined)
      ELSE IF FieldOf(body, ResponseKey) # Throw
      THEN Payload(TRUE, "absent", FALSE, undefined, undefined, undefined,
                   FieldOf(body, ResponseKey))
      ELSE SyntaxError

\* the value undefined where a StreamResponse is expected
NoPayload ==
  Payload(FALSE, "absent", FALSE, undefined, undefined, undefined, undefined)

isStreamWithDataPrefix(stringBuffer) == startsWith(stringBuffer, DataPrefix)

safeParseJsonResponse(stringBuffer) ==
  LET text == IF isStreamWithDataPrefix(stringBuffer)
              THEN SplitSecond(stringBuffer, DataPrefix)
              ELSE stringBuffer
  IN  IF JSONParse(text) = SyntaxError THEN NoPayload ELSE JSONParse(text)

(* ------------------------------ chunking ------------------------------ *)

Min(a, b) == IF a < b THEN a ELSE b

\* the while loop of simpleChunk stepping by maxSize, whatever overlap is
RECURSIVE simpleChunkLoop_NoOverlap(_, _, _, _, _)
simpleChunkLoop_NoOverlap(content, maxSize, overlap, start, chunks) ==
  IF ~(start < Len(content)) THEN chunks
  ELSE LET end == Min(start + maxSize, Len(content))
           chunk == SubSeq(content, start + 1, end)
       IN  IF end = Len(content) THEN Append(chunks, chunk)
           ELSE simpleChunkLoop_NoOverlap(content, maxSize, overlap, end,
                                          Append(chunks, chunk))

\* the while loop of simpleChunk from position start on
RECURSIVE simpleChunkLoop(_, _, _, _, _)
simpleChunkLoop(content, maxSize, overlap, start, chunks) ==
  IF ~(start < Len(content)) THEN chunks
  ELSE LET end == Min(start + maxSize, Len(content))
           chunk == SubSeq(content, start + 1, end)
       IN  IF end = Len(content) THEN Append(chunks, chunk)
           ELSE simpleChunkLoop(content, maxSize, overlap,
                                IF end - overlap > start THEN end - overlap ELSE end,
                                Append(chunks, chunk))

\* chunks.filter((chunk, index) => chunk.length >= minSize ||
\*                                 index === chunks.length - 1), from index i on
RECURSIVE filterChunks(_, _, _)
filterChunks(chunks, minSize, i) ==
  IF i > Len(chunks) THEN <<>>
  ELSE IF Len(chunks[i]) >= minSize \/ i = Len(chunks)
  THEN <<chunks[i]>> \o filterChunks(chunks, minSize, i + 1)
  ELSE filterChunks(chunks, minSize, i + 1)

\* simpleChunk filtering by size alone, the last fragment like the others
simpleChunk_NoLastExemption(content, minSize, maxSize, overlap) ==
  SelectSeq(simpleChunkLoop(content, maxSize, overlap, 0, <<>>),
            LAMBDA chunk : Len(chunk) >= minSize)

simpleChunk(content, minSize, maxSize, overlap) ==
  filterChunks(simpleChunkLoop(content, maxSize, overlap, 0, <<>>), minSize, 1)

\* String.prototype.slice(-n): slice(-0) is slice(0), the whole text
sliceLast(t, n) ==
  IF n = 0 \/ n >= Len(t) THEN t ELSE SubSeq(t, Len(t) - n + 1, Len(t))

\* the for loop of combineChunks from fragment i on, and the final push
RECURSIVE combineLoop(_, _, _, _, _, _, _)
combineLoop(chunks, i, minSize, maxSize, overlap, currentChunk, result) ==
  IF i > Len(chunks)
  THEN IF Len(currentChunk) >= minSize THEN Append(result, currentChunk)
       ELSE result
  ELSE
    LET chunk == chunks[i]
        over == Len(currentChunk) + Len(chunk) > maxSize
        flushed == over /\ Len(currentChunk) >= minSize
        joined ==
          IF flushed THEN chunk
          ELSE IF over THEN currentChunk \o <<" ">> \o chunk
          ELSE currentChunk \o (IF currentChunk # <<>> THEN <<" ">> ELSE <<>>)
                            \o chunk
        pushed == IF flushed THEN Append(result, currentChunk) ELSE result
    IN  IF Len(joined) >= maxSize - overlap
        THEN combineLoop(chunks, i + 1, minSize, maxSize, overlap,
                         sliceLast(joined, overlap), Append(pushed, joined))
        ELSE combineLoop(chunks, i + 1, minSize, maxSize, overlap, joined, pushed)

\* the iterations of the for loop of combineChunks from fragment i on: the
\* accumulator before the iteration, the fragment, whether the accumulator
\* was flushed by the first test, and the accumulator after that test
RECURSIVE combineTrace(_, _, _, _, _, _)
combineTrace(chunks, i, minSize, maxSize, overlap, currentChunk) ==
  IF i > Len(chunks) THEN <<>>
  ELSE
    LET chunk == chunks[i]
        over == Len(currentChunk) + Len(chunk) > maxSize
        flushed == over /\ Len(currentChunk) >= minSize
        joined ==
          IF flushed THEN chunk
          ELSE IF over THEN currentChunk \o <<" ">> \o chunk
          ELSE currentChunk \o (IF currentChunk # <<>> THEN <<" ">> ELSE <<>>)
                            \o chunk
    IN  <<[before |-> currentChunk, chunk |-> chunk, flushed |-> flushed,
           accumulator |-> joined]>> \o
        combineTrace(chunks, i + 1, minSize, maxSize, overlap,
                     IF Len(joined) >= maxSize - overlap
                     THEN sliceLast(joined, overlap) ELSE joined)

combineChunks(chunks, minSize, maxSize, overlap) ==
  combineLoop(chunks, 1, minSize, maxSize, overlap, <<>>, <<>>)

(* ----------------------------- retrieval ------------------------------ *)

\* the file size above which readFileContent returns no content (5 * 1024)
maxFileSize == 5120
\* the size of a file above the cap
OversizedBytes == 6000
\* the default of the rerank threshold, in tenths; rerank scores are in
\* tenths as well
DEFAULT_RERANK_THRESHOLD == 5

\* the JavaScript value null, distinct from every text
null == <<"$null">>

\* a file path, and path.basename
Path(dir, base) == [dir |-> dir, base |-> base]
basename(filePath) == filePath.base

\* the threshold stored in globalState: not set, or a number
NotStored == [set |-> FALSE, value |-> 0]
Stored(n) == [set |-> TRUE, value |-> n]

\* a result of Reranker.rerank: no scores, or one score per input, by
\* position
NoScores == [ok |-> FALSE, values |-> <<>>]
ScoresOf(values) == [ok |-> TRUE, values |-> values]

\* String.prototype.trim
trim(t) == trimEnd(trimStart(t))

\* Array.prototype.join
RECURSIVE join(_, _)
join(items, sep) ==
  IF items = <<>> THEN <<>>
  ELSE IF Len(items) = 1 THEN items[1]
  ELSE items[1] \o sep \o join(Tail(items), sep)

\* the conversion of an array of texts to a string: Array.prototype.toString
\* joins the elements by a comma
arrayToString(items) == join(items, <<",">>)

\* items.filter(Boolean) on an array of texts and nulls
filterBoolean(items) == SelectSeq(items, LAMBDA item : item # null /\ item # <<>>)

\* stored || DEFAULT_RERANK_THRESHOLD
getRerankThreshold(stored) ==
  IF stored.set /\ stored.value # 0 THEN stored.value
  ELSE DEFAULT_RERANK_THRESHOLD

\* env is what the service and its collaborators hold at the call: db (the
\* embedding store is configured), text, workspaceName (workspace.name is
\* set), fileTable and documentTable (hasEmbeddingTable of either table),
\* fileEmbedding and codeEmbedding (fetchModelEmbedding returned one),
\* filePaths and documents (what getDocuments returns from either table),
\* fileScores and documentScores (what the reranker returns), stored (the
\* stored threshold) and fs (the state of each file on disk)
rerankFiles_Reversed(env, text, filePaths) ==
  IF ~env.db \/ text = <<>> \/ ~env.workspaceName \/ filePaths = <<>> THEN <<>>
  ELSE IF ~env.fileScores.ok THEN <<>>
  ELSE [index \in 1..Len(filePaths) |->
          <<filePaths[Len(filePaths) + 1 - index],
            env.fileScores.values[Len(filePaths) + 1 - index]>>]

rerankFiles(env, text, filePaths) ==
  IF ~env.db \/ text = <<>> \/ ~env.workspaceName \/ filePaths = <<>> THEN <<>>
  ELSE IF ~env.fileScores.ok THEN <<>>
  ELSE [index \in 1..Len(filePaths) |->
          <<filePaths[index], env.fileScores.values[index]>>]

getRelevantFiles(env, text) ==
  IF ~env.db \/ text = <<>> \/ ~env.workspaceName THEN <<>>
  ELSE IF ~env.fileTable THEN <<>>
  ELSE IF ~env.fileEmbedding THEN <<>>
  ELSE IF env.filePaths = <<>> THEN <<>>
  ELSE rerankFiles(env, text, env.filePaths)

\* readFileContent without the size cap
readFileContent_NoCap(fs, filePath) ==
  IF ~fs[filePath].exists THEN null
  ELSE IF fs[filePath].size = 0 THEN <<>>
  ELSE IF ~fs[filePath].readable THEN null
  ELSE fs[filePath].content

\* fs.stat, then fs.readFile; every error is caught
readFileContent(fs, filePath) ==
  IF ~fs[filePath].exists THEN null
  ELSE IF fs[filePath].size > maxFileSize THEN null
  ELSE IF fs[filePath].size = 0 THEN <<>>
  ELSE IF ~fs[filePath].readable THEN null
  ELSE fs[filePath].content

\* the files of relevantFiles whose score is at or above the threshold
hydrated_AtOrAbove(relevantFiles, threshold) ==
  SelectSeq(relevantFiles, LAMBDA file : file[2] >= threshold)

\* the files of relevantFiles that readFileContent is called for, in order
hydrated(relevantFiles, threshold) ==
  SelectSeq(relevantFiles, LAMBDA file : file[2] > threshold)

\* the for loop of getRelevantCode
readFileChunks(fs, relevantFiles, threshold) ==
  [i \in 1..Len(hydrated(relevantFiles, threshold)) |->
     readFileContent(fs, hydrated(relevantFiles, threshold)[i][1])]

\* documents.filter((_, index) => documentScores[index] > rerankThreshold)
\*          .map(({ content }) => content), from index on
RECURSIVE documentChunks(_, _, _, _)
documentChunks(documents, documentScores, threshold, index) ==
  IF index > Len(documents) THEN <<>>
  ELSE IF documentScores[index] > threshold
  THEN <<documents[index]>> \o
         documentChunks(documents, documentScores, threshold, index + 1)
  ELSE documentChunks(documents, documentScores, threshold, index + 1)

\* [readFileChunks.filter(Boolean), documentChunks.filter(Boolean)]
\*   .join('\n\n').trim(): join converts each of the two arrays to a string
codeBlock(fileChunks, codeChunks) ==
  trim(join(<<arrayToString(filterBoolean(fileChunks)),
              arrayToString(filterBoolean(codeChunks))>>, <<"\n", "\n">>))

\* getRelevantCode without the test of documentScores: reading a score of
\* no scores raises
getRelevantCode_NoScoresGuard(env, text, relevantFiles) ==
  IF ~env.db \/ text = <<>> \/ ~env.workspaceName THEN <<>>
  ELSE IF ~env.documentTable THEN <<>>
  ELSE IF ~env.codeEmbedding THEN <<>>
  ELSE IF ~env.documentScores.ok
  THEN IF env.documents = <<>> THEN codeBlock(
         readFileChunks(env.fs, relevantFiles, getRerankThreshold(env.stored)),
         <<>>)
       ELSE Throw
  ELSE codeBlock(
         readFileChunks(env.fs, relevantFiles, getRerankThreshold(env.stored)),
         documentChunks(env.documents, env.documentScores.values,
                        getRerankThreshold(env.stored), 1))

getRelevantCode(env, text, relevantFiles) ==
  IF ~env.db \/ text = <<>> \/ ~env.workspaceName THEN <<>>
  ELSE IF ~env.documentTable THEN <<>>
  ELSE IF ~env.codeEmbedding THEN <<>>
  ELSE IF ~env.documentScores.ok THEN <<>>
  ELSE codeBlock(
         readFileChunks(env.fs, relevantFiles, getRerankThreshold(env.stored)),
         documentChunks(env.documents, env.documentScores.values,
                        getRerankThreshold(env.stored), 1))

(* ----------------------------- messages ------------------------------- *)

\* the lifecycle messages posted to the webview
twinnyOnCompletion == "twinnyOnCompletion"
twinnyOnEnd == "twinnyOnEnd"

\* a lifecycle message; by and session record which callback posted it
\* and for which stream
Msg(type, hasValue, text, err, errMsg, tpl, by, s) ==
  [type |-> type, hasValue |-> hasValue, completion |-> text, error |-> err,
   errorMessage |-> errMsg, template |-> tpl, by |-> by, session |-> s]

NoMsg == Msg("none", FALSE, undefined, FALSE, "", "", "none", 0)

ErrorMessages == {"connect ECONNREFUSED", "Server responded with status code: 500"}

Templates == {"explain", "commit-message"}

(* ------------------------------- state -------------------------------- *)

VARIABLES
  completion,       \* ChatService._completion
  controller,       \* ChatService._controller: 0, or the stream whose AbortController it is
  promptTemplate,   \* ChatService._promptTemplate
  generatingText,   \* the twinnyGeneratingText context flag
  listeners,        \* webview listeners registered by onStreamStart
  provider,         \* the active chat provider in globalState
  nextSession,      \* streams opened so far
  stream,           \* state of each transport stream
  lastError,        \* the error the transport reported last
  entered,          \* onStart was delivered for the stream
  aborted,          \* signal.aborted of each open stream's AbortController
  onEndHandler,     \* the open stream was requested with a caller's onEnd handler
  chunks,           \* chunks delivered by each open stream
  incremental,      \* twinnyOnCompletion messages posted for each open stream
  terminal,         \* twinnyOnEnd messages posted for each stream
  handlerCalls,     \* calls of callers' onEnd handlers
  handlerText,      \* the text last passed to a caller's onEnd handler
  lastMsg,          \* the last lifecycle message posted to the webview
  sessionText,      \* text appended by the chunks of the latest request's own stream
  cancelRequested,  \* a cancel was requested for the open stream
  stopGenerationPosts, \* twinnyStopGeneration messages posted by SidebarProvider.destroyStream
  steps,            \* requests, cancels and transport callbacks so far
  symmetryConnected, \* the session flag twinnySymmetryConnection
  ragEnabled,       \* the workspace flag twinnyEnableRag
  lastRoute,        \* what the last completion request did
  loading,          \* ChatService._statusBar.text is the spinner '$(loading~spin)'
  call              \* a call of one of the pure functions, and its result

vars ==
  <<completion, controller, promptTemplate, generatingText, listeners, provider,
    nextSession, stream, lastError, entered, aborted, onEndHandler, chunks,
    incremental, terminal, handlerCalls, handlerText, lastMsg, sessionText,
    cancelRequested, stopGenerationPosts, steps, symmetryConnected,
    ragEnabled, lastRoute, loading, call>>

\* a completion request: its kind, the route it took ("peer", "direct", or
\* "none" when nothing was sent), whether the Retrieval Engine was invoked,
\* and the template id its system message was rendered with
Route(kind, route, retrieval, systemTemplate) ==
  [kind |-> kind, route |-> route, retrieval |-> retrieval,
   systemTemplate |-> systemTemplate]

NoRoute == Route("none", "none", FALSE, "")

\* no pure function is being called
NoCall == [fn |-> "none"]

\* the ChatService after construction, before any request
InitService ==
  /\ completion = <<>>
  /\ controller = 0
  /\ promptTemplate = ""
  /\ generatingText = FALSE
  /\ listeners = 0
  /\ provider \in Providers \cup {NoProvider}
  /\ nextSession = 0
  /\ stream = [s \in Sessions |-> "none"]
  /\ lastError = ""
  /\ entered = [s \in Sessions |-> FALSE]
  /\ aborted = [s \in Sessions |-> FALSE]
  /\ onEndHandler = [s \in Sessions |-> FALSE]
  /\ chunks = [s \in Sessions |-> 0]
  /\ incremental = [s \in Sessions |-> 0]
  /\ terminal = [s \in Sessions |-> 0]
  /\ handlerCalls = 0
  /\ handlerText = undefined
  /\ lastMsg = NoMsg
  /\ sessionText = <<>>
  /\ cancelRequested = [s \in Sessions |-> FALSE]
  /\ stopGenerationPosts = 0
  /\ steps = 0
  /\ lastRoute = NoRoute
  /\ loading = FALSE
  /\ call = NoCall

\* no peer route and no retrieval: the lifecycle of the direct streams, which
\* the two flags do not touch
Init ==
  /\ InitService
  /\ symmetryConnected = FALSE
  /\ ragEnabled = FALSE

\* the stream is open and still delivering
Live(s) == stream[s] \in {"connecting", "open"} /\ ~aborted[s]
\* the session of the stream is in the Streaming state
Streaming(s) == stream[s] = "open"
Closed(s) == stream[s] \in {"ended", "cancelled", "errored"}
\* no session is in flight
Idle == \A s \in Sessions : stream[s] = "none" \/ Closed(s)

\* one more request, cancel or transport callback, within the bound
Tick == steps < MaxSteps /\ steps' = steps + 1

(* ----------------------- ChatService callbacks ------------------------ *)

onStreamStart(s) ==
  /\ controller' = s
  /\ generatingText' = TRUE
  /\ listeners' = listeners + 1

onStreamData(s, data) ==
  IF provider = NoProvider \/ getChatDataFromProvider(provider, data) = Throw
  THEN UNCHANGED <<completion, sessionText, incremental, lastMsg>>
  ELSE
    /\ completion' = completion \o ToText(getChatDataFromProvider(provider, data))
    /\ sessionText' =
         IF s = nextSession
         THEN sessionText \o ToText(getChatDataFromProvider(provider, data))
         ELSE sessionText
    /\ IF onEndHandler[s]
       THEN UNCHANGED <<incremental, lastMsg>>
       ELSE /\ incremental' = [incremental EXCEPT ![s] = @ + 1]
            /\ lastMsg' = Msg(twinnyOnCompletion, TRUE, trimStart(completion'),
                              FALSE, "", promptTemplate, "onStreamData", s)

\* onStreamEnd returning from the handler branch before it posts twinnyOnEnd
onStreamEnd_HandlerOnly(s) ==
  /\ loading' = FALSE
  /\ generatingText' = FALSE
  /\ IF onEndHandler[s]
     THEN /\ handlerCalls' = handlerCalls + 1
          /\ handlerText' = completion
          /\ UNCHANGED <<terminal, lastMsg>>
     ELSE /\ UNCHANGED <<handlerCalls, handlerText>>
          /\ terminal' = [terminal EXCEPT ![s] = @ + 1]
          /\ lastMsg' = Msg(twinnyOnEnd, TRUE, trimStart(completion), FALSE, "",
                            promptTemplate, "onStreamEnd", s)

onStreamEnd(s) ==
  /\ loading' = FALSE
  /\ generatingText' = FALSE
  /\ terminal' = [terminal EXCEPT ![s] = @ + 1]
  /\ IF onEndHandler[s]
     THEN /\ handlerCalls' = handlerCalls + 1
          /\ handlerText' = completion
          /\ lastMsg' = Msg(twinnyOnEnd, FALSE, undefined, FALSE, "", "",
                            "onStreamEnd", s)
     ELSE /\ UNCHANGED <<handlerCalls, handlerText>>
          /\ lastMsg' = Msg(twinnyOnEnd, TRUE, trimStart(completion), FALSE, "",
                            promptTemplate, "onStreamEnd", s)

\* onStreamError posting the message without the error flag
onStreamError_NoFlag(s, message) ==
  /\ terminal' = [terminal EXCEPT ![s] = @ + 1]
  /\ lastMsg' = Msg(twinnyOnEnd, TRUE, undefined, FALSE, message, "",
                    "onStreamError", s)

onStreamError(s, message) ==
  /\ terminal' = [terminal EXCEPT ![s] = @ + 1]
  /\ lastMsg' = Msg(twinnyOnEnd, TRUE, undefined, TRUE, message, "",
                    "onStreamError", s)

(* ------------------------------ transport ----------------------------- *)

\* streamResponse: a new stream with its own AbortController
streamResponse(onEnd) ==
  /\ nextSession < MaxSessions
  /\ nextSession' = nextSession + 1
  /\ stream' = [stream EXCEPT ![nextSession + 1] = "connecting"]
  /\ onEndHandler' = [onEndHandler EXCEPT ![nextSession + 1] = onEnd]

\* the stream closes as "ended", "cancelled" or "errored"; what belonged to
\* the open stream is dropped
Close(s, how) ==
  /\ stream' = [stream EXCEPT ![s] = how]
  /\ aborted' = [aborted EXCEPT ![s] = FALSE]
  /\ cancelRequested' = [cancelRequested EXCEPT ![s] = FALSE]
  /\ onEndHandler' = [onEndHandler EXCEPT ![s] = FALSE]
  /\ chunks' = [chunks EXCEPT ![s] = 0]

\* the connection is established: onStart(controller)
TransportStart(s) ==
  /\ Tick
  /\ UNCHANGED <<symmetryConnected, ragEnabled, call>>
  /\ UNCHANGED <<lastRoute, loading>>
  /\ stream[s] = "connecting"
  /\ stream' = [stream EXCEPT ![s] = "open"]
  /\ entered' = [entered EXCEPT ![s] = TRUE]
  /\ onStreamStart(s)
  /\ UNCHANGED <<completion, promptTemplate, provider, lastError, nextSession,
                 aborted, onEndHandler, chunks, incremental, terminal,
                 handlerCalls, handlerText, lastMsg, sessionText,
                 cancelRequested, stopGenerationPosts>>

\* one chunk is read: onData(chunk); an aborted stream delivers none
TransportData(s, data) ==
  /\ Tick
  /\ UNCHANGED <<symmetryConnected, ragEnabled, call>>
  /\ UNCHANGED <<lastRoute, loading>>
  /\ stream[s] = "open"
  /\ ~aborted[s]
  /\ chunks' = [chunks EXCEPT ![s] = @ + 1]
  /\ onStreamData(s, data)
  /\ UNCHANGED <<controller, promptTemplate, generatingText, listeners,
                 provider, lastError, nextSession, stream, entered, aborted,
                 onEndHandler, terminal, handlerCalls, handlerText,
                 cancelRequested, stopGenerationPosts>>

\* the stream closes normally: onEnd()
TransportEnd(s) ==
  /\ Tick
  /\ UNCHANGED <<symmetryConnected, ragEnabled, call>>
  /\ UNCHANGED <<lastRoute>>
  /\ stream[s] = "open"
  /\ ~aborted[s]
  /\ Close(s, "ended")
  /\ onStreamEnd(s)
  /\ incremental' = [incremental EXCEPT ![s] = 0]
  /\ UNCHANGED <<completion, controller, promptTemplate, listeners, provider,
                 lastError, nextSession, entered, sessionText,
                 stopGenerationPosts>>

\* the aborted stream closes: cancellation is not an error, onEnd()
TransportAbortEnd(s) ==
  /\ Tick
  /\ UNCHANGED <<symmetryConnected, ragEnabled, call>>
  /\ UNCHANGED <<lastRoute>>
  /\ stream[s] = "open"
  /\ aborted[s]
  /\ Close(s, "cancelled")
  /\ onStreamEnd(s)
  /\ incremental' = [incremental EXCEPT ![s] = 0]
  /\ UNCHANGED <<completion, controller, promptTemplate, listeners, provider,
                 lastError, nextSession, entered, sessionText,
                 stopGenerationPosts>>

\* connection refused, non-2xx, or the peer aborts mid-stream: onError(error)
TransportError(s, message) ==
  /\ Tick
  /\ UNCHANGED <<symmetryConnected, ragEnabled, call>>
  /\ UNCHANGED <<lastRoute, loading>>
  /\ stream[s] \in {"connecting", "open"}
  /\ ~aborted[s]
  /\ Close(s, "errored")
  /\ lastError' = message
  /\ onStreamError(s, message)
  /\ incremental' = [incremental EXCEPT ![s] = 0]
  /\ UNCHANGED <<completion, controller, promptTemplate, generatingText,
                 listeners, provider, nextSession, entered, handlerCalls,
                 handlerText, sessionText, stopGenerationPosts>>

(* ------------------------------ requests ------------------------------ *)

\* buildStreamRequest returns a request exactly when a provider is active
buildStreamRequest == provider # NoProvider

\* getRagContext without the test of the peer-route flag
getRagContext_IgnoresPeerRoute == ragEnabled

\* getRagContext invokes the Retrieval Engine (getRelevantFiles and
\* getRelevantCode) unless it returns null at its guard
getRagContext == ~(~ragEnabled \/ symmetryConnected)

\* ChatService.streamChatCompletion
streamChatCompletion ==
  /\ Tick
  /\ completion' = <<>>
  /\ sessionText' = <<>>
  /\ lastRoute' = Route("chat", IF buildStreamRequest THEN "direct" ELSE "none",
                        getRagContext, promptTemplate)
  /\ IF buildStreamRequest
     THEN streamResponse(FALSE)
     ELSE UNCHANGED <<nextSession, stream, onEndHandler>>
  /\ UNCHANGED <<controller, promptTemplate, generatingText, listeners,
                 provider, lastError, entered, aborted, chunks, incremental,
                 terminal, handlerCalls, handlerText, lastMsg,
                 cancelRequested, stopGenerationPosts, symmetryConnected,
                 ragEnabled, loading, call>>

\* getTemplateMessages: the status bar spins, the text and the template are
\* reset; only the template explain asks for retrieval context.  The result
\* says whether the Retrieval Engine was invoked.
getTemplateMessages(template) ==
  /\ loading' = TRUE
  /\ completion' = <<>>
  /\ sessionText' = <<>>
  /\ promptTemplate' = template

TemplateRetrieval(template) == template = "explain" /\ getRagContext

\* ChatService.streamTemplateCompletion
streamTemplateCompletion(template, onEnd) ==
  /\ Tick
  /\ getTemplateMessages(template)
  /\ lastRoute' = Route(template, IF buildStreamRequest THEN "direct" ELSE "none",
                        TemplateRetrieval(template), promptTemplate')
  /\ IF buildStreamRequest
     THEN streamResponse(onEnd)
     ELSE UNCHANGED <<nextSession, stream, onEndHandler>>
  /\ UNCHANGED <<controller, generatingText, listeners, provider, lastError,
                 entered, aborted, chunks, incremental, terminal,
                 handlerCalls, handlerText, lastMsg, cancelRequested,
                 stopGenerationPosts, symmetryConnected, ragEnabled, call>>

\* symmetryService.write of an inference envelope: nothing of the ChatService
\* is touched by the write itself.  The sidebar renders the system message
\* of a chat request with no template id, getTemplateMessages that of a
\* template request with the template.
SymmetryWrite(kind, retrieval) ==
  /\ lastRoute' = Route(kind, "peer", retrieval,
                        IF kind = "chat" THEN "" ELSE kind)
  /\ UNCHANGED <<controller, generatingText, listeners, provider, nextSession,
                 stream, lastError, entered, aborted, onEndHandler, chunks,
                 incremental, terminal, handlerCalls, handlerText, lastMsg,
                 cancelRequested, stopGenerationPosts, symmetryConnected,
                 ragEnabled, call>>

\* SidebarProvider.streamChatCompletion
SidebarStreamChatCompletion ==
  IF symmetryConnected
  THEN /\ Tick
       /\ SymmetryWrite("chat", FALSE)
       /\ UNCHANGED <<completion, sessionText, promptTemplate, loading>>
  ELSE streamChatCompletion

\* SidebarProvider.streamTemplateCompletion
SidebarStreamTemplateCompletion(template) ==
  IF symmetryConnected
  THEN /\ Tick
       /\ getTemplateMessages(template)
       /\ SymmetryWrite(template, TemplateRetrieval(template))
  ELSE streamTemplateCompletion(template, FALSE)

\* SidebarProvider.getGitCommitMessage with a non-empty diff
getGitCommitMessage == streamTemplateCompletion("commit-message", TRUE)

(* ---------------------------- cancellation ---------------------------- *)

\* this._controller?.abort(); aborting the controller of a closed stream
\* changes nothing that can be observed
Abort ==
  aborted' = IF controller # 0 /\ Streaming(controller)
             THEN [aborted EXCEPT ![controller] = TRUE]
             ELSE aborted

\* a cancel request is addressed to the stream the controller belongs to
CancelRequest ==
  cancelRequested' = IF controller # 0 /\ Streaming(controller)
                     THEN [cancelRequested EXCEPT ![controller] = TRUE]
                     ELSE cancelRequested

\* destroyStream posting the accumulated text as it is
ChatDestroyStream_RawText ==
  /\ loading' = FALSE
  /\ Abort
  /\ generatingText' = TRUE
  /\ lastMsg' = Msg(twinnyOnEnd, TRUE, completion, FALSE, "",
                    promptTemplate, "destroyStream",
                    IF controller # 0 /\ Streaming(controller) THEN controller ELSE 0)
  /\ terminal' = IF controller # 0 /\ Streaming(controller)
                 THEN [terminal EXCEPT ![controller] = @ + 1]
                 ELSE terminal

\* destroyStream without the call of abort
ChatDestroyStream_NoAbort ==
  /\ loading' = FALSE
  /\ UNCHANGED aborted
  /\ generatingText' = TRUE
  /\ lastMsg' = Msg(twinnyOnEnd, TRUE, trimStart(completion), FALSE, "",
                    promptTemplate, "destroyStream",
                    IF controller # 0 /\ Streaming(controller) THEN controller ELSE 0)
  /\ terminal' = IF controller # 0 /\ Streaming(controller)
                 THEN [terminal EXCEPT ![controller] = @ + 1]
                 ELSE terminal

\* ChatService.destroyStream
ChatDestroyStream ==
  /\ loading' = FALSE
  /\ Abort
  /\ generatingText' = TRUE
  /\ lastMsg' = Msg(twinnyOnEnd, TRUE, trimStart(completion), FALSE, "",
                    promptTemplate, "destroyStream",
                    IF controller # 0 /\ Streaming(controller) THEN controller ELSE 0)
  /\ terminal' = IF controller # 0 /\ Streaming(controller)
                 THEN [terminal EXCEPT ![controller] = @ + 1]
                 ELSE terminal

\* SidebarProvider.destroyStream
destroyStream ==
  /\ Tick
  /\ UNCHANGED <<symmetryConnected, ragEnabled, call>>
  /\ UNCHANGED <<lastRoute>>
  /\ CancelRequest
  /\ ChatDestroyStream
  /\ stopGenerationPosts' = stopGenerationPosts + 1
  /\ UNCHANGED <<completion, controller, promptTemplate, listeners, provider,
                 lastError, nextSession, stream, entered, onEndHandler,
                 chunks, incremental, handlerCalls, handlerText, sessionText>>

\* the webview sends twinnyStopGeneration to the listeners of onStreamStart
StopGeneration ==
  /\ Tick
  /\ UNCHANGED <<symmetryConnected, ragEnabled, call>>
  /\ UNCHANGED <<lastRoute, loading>>
  /\ listeners > 0
  /\ CancelRequest
  /\ Abort
  /\ UNCHANGED <<completion, controller, promptTemplate, generatingText,
                 listeners, provider, lastError, nextSession, stream, entered,
                 onEndHandler, chunks, incremental, terminal, handlerCalls,
                 handlerText, lastMsg, sessionText, stopGenerationPosts>>

(* ---------------------------- specification --------------------------- *)

Next ==
  \/ SidebarStreamChatCompletion
  \/ \E t \in Templates \ {"commit-message"} : SidebarStreamTemplateCompletion(t)
  \/ getGitCommitMessage
  \/ destroyStream
  \/ StopGeneration
  \/ \E s \in Sessions : TransportStart(s)
  \/ \E s \in Sessions, data \in Payloads : TransportData(s, data)
  \/ \E s \in Sessions : TransportEnd(s)
  \/ \E s \in Sessions : TransportAbortEnd(s)
  \/ \E s \in Sessions, m \in ErrorMessages : TransportError(s, m)

Spec == Init /\ [][Next]_vars

\* the same service with the peer-route flag and the RAG flag set or not
RouteInit ==
  /\ InitService
  /\ provider \in {Ollama, NoProvider}
  /\ symmetryConnected \in BOOLEAN
  /\ ragEnabled \in BOOLEAN

RouteSpec == RouteInit /\ [][Next]_vars

\* what is known to happen: the callbacks of a stream that was aborted are
\* delivered; nothing makes a silent peer send a chunk, an end or an error
LiveSpec ==
  Init /\ [][Next]_vars /\ WF_vars(\E s \in Sessions : TransportAbortEnd(s))

(* -------------------- calls of the pure functions --------------------- *)

\* everything but call
serviceVars ==
  <<completion, controller, promptTemplate, generatingText, listeners, provider,
    nextSession, stream, lastError, entered, aborted, onEndHandler, chunks,
    incremental, terminal, handlerCalls, handlerText, lastMsg, sessionText,
    cancelRequested, stopGenerationPosts, steps, symmetryConnected,
    ragEnabled, lastRoute, loading>>

\* the text of n distinct characters
Letters == <<"a", "b", "c", "d", "e", "f", "g", "h", "i", "j">>
Content(n) == SubSeq(Letters, 1, n)

\* the field values of the chunk objects and the delta texts
FieldTexts == {<<>>, <<"a">>, DataPrefix, <<"a">> \o DataPrefix \o <<"b">>}
Deltas == {<<>>, <<"a">>, <<" ", "a">>, UndefinedText}

\* the JSON texts of well-formed chunk objects
JsonTexts == {ObjectText(k, s) : k \in {ContentKey, ResponseKey}, s \in FieldTexts}

\* t and what is left of t when the chunk is cut anywhere before its end
Truncations(t) == {SubSeq(t, 1, n) : n \in 0..Len(t)}

\* the raw chunks of a stream: a JSON text, whole or cut, bare or behind the
\* SSE marker with or without a space
RawChunks ==
  UNION {{r, DataPrefix \o r, DataPrefix \o <<" ">> \o r} :
           r \in UNION {Truncations(j) : j \in JsonTexts}}

\* a well-formed response of the provider with d in the field the decoder of
\* that provider reads
SyntheticResponse(decoder, p, d) ==
  IF p = LlamaCpp THEN FlatContent(d)
  ELSE IF decoder = "fim" /\ p \in {Ollama, OpenWebUI}
  THEN Payload(TRUE, "absent", FALSE, undefined, undefined, undefined, d)
  ELSE ChatDelta(d)

Decoders == {"chat", "fim"}

Decode(decoder, p, data) ==
  IF decoder = "chat" THEN getChatDataFromProvider(p, data)
  ELSE getFimDataFromProvider(p, data)

\* the chunk options, and the fragment sequences given to combineChunks
Sizes == 0..MaxSize
FragmentSeqs ==
  UNION {[1..n -> {Content(k) : k \in 0..MaxFragmentLen}] : n \in 0..MaxFragments}

\* safeParseJsonResponse, then the decoder of the provider
DecodeChunk ==
  /\ call = NoCall
  /\ \E raw \in RawChunks, p \in Providers, decoder \in Decoders :
       call' = [fn |-> "decodeChunk", raw |-> raw, provider |-> p,
                decoder |-> decoder, parsed |-> safeParseJsonResponse(raw),
                result |-> Decode(decoder, p, safeParseJsonResponse(raw))]
  /\ UNCHANGED serviceVars

\* safeParseJsonResponse of a JSON text, bare and behind the SSE marker
ParseMarked ==
  /\ call = NoCall
  /\ \E json \in JsonTexts :
       call' = [fn |-> "safeParseJsonResponse", json |-> json,
                bare |-> safeParseJsonResponse(json),
                marked |-> safeParseJsonResponse(DataPrefix \o json)]
  /\ UNCHANGED serviceVars

\* the decoder of the provider on a well-formed response that carries d
DecodeResponse ==
  /\ call = NoCall
  /\ \E decoder \in Decoders, p \in Providers, d \in Deltas :
       call' = [fn |-> "decodeResponse", decoder |-> decoder, provider |-> p,
                delta |-> d,
                result |-> Decode(decoder, p, SyntheticResponse(decoder, p, d))]
  /\ UNCHANGED serviceVars

\* the parsed payloads of the default branch: no choices field, an empty
\* choices list, and choices[0] carrying d as delta content and as text
FallbackPayloads ==
  {NoPayload, EmptyChoices, FlatContent(<<"a">>)} \cup
  {Payload(TRUE, "one", TRUE, d, d, undefined, undefined) : d \in Deltas}

\* the decoder on the default branch of its switch
DecodeFallback ==
  /\ call = NoCall
  /\ \E decoder \in Decoders, data \in FallbackPayloads :
       call' = [fn |-> "decodeFallback", decoder |-> decoder, data |-> data,
                result |-> Decode(decoder, OtherProvider, data)]
  /\ UNCHANGED serviceVars

SimpleChunk ==
  /\ call = NoCall
  /\ \E n \in 0..MaxContentLen, minSize \in Sizes, maxSize \in 1..MaxSize,
        overlap \in Sizes :
       call' = [fn |-> "simpleChunk", content |-> Content(n),
                minSize |-> minSize, maxSize |-> maxSize, overlap |-> overlap,
                result |-> simpleChunk(Content(n), minSize, maxSize, overlap)]
  /\ UNCHANGED serviceVars

\* start = end - overlap, without the test that it moves forward
nextStart_NoGuard(start, end, overlap) == end - overlap

\* start = end - overlap > start ? end - overlap : end
nextStart(start, end, overlap) ==
  IF end - overlap > start THEN end - overlap ELSE end

\* the call of simpleChunk up to the test of its while loop
SimpleChunkEnter ==
  /\ call = NoCall
  /\ \E n \in 0..MaxContentLen, minSize \in Sizes, maxSize \in 1..MaxSize,
        overlap \in Sizes :
       call' = [fn |-> "simpleChunkLoop", content |-> Content(n),
                minSize |-> minSize, maxSize |-> maxSize, overlap |-> overlap,
                start |-> 0, chunks |-> <<>>, running |-> 0 < n,
                result |-> <<>>]
  /\ UNCHANGED serviceVars

\* one iteration of the while loop of simpleChunk, and the return when the
\* loop is left
SimpleChunkIterate ==
  /\ call # NoCall
  /\ call.fn = "simpleChunkLoop"
  /\ call.running
  /\ LET end == Min(call.start + call.maxSize, Len(call.content))
         pushed == Append(call.chunks, SubSeq(call.content, call.start + 1, end))
         start == nextStart(call.start, end, call.overlap)
         running == end # Len(call.content) /\ start < Len(call.content)
     IN  call' = [call EXCEPT !.start = start, !.chunks = pushed,
                              !.running = running,
                              !.result = IF running THEN <<>>
                                         ELSE filterChunks(pushed, call.minSize, 1)]
  /\ UNCHANGED serviceVars

CombineChunks ==
  /\ call = NoCall
  /\ \E fragments \in FragmentSeqs, minSize \in Sizes, maxSize \in 1..MaxSize,
        overlap \in Sizes :
       call' = [fn |-> "combineChunks", chunks |-> fragments,
                minSize |-> minSize, maxSize |-> maxSize, overlap |-> overlap,
                result |-> combineChunks(fragments, minSize, maxSize, overlap),
                trace |-> combineTrace(fragments, 1, minSize, maxSize, overlap,
                                       <<>>)]
  /\ UNCHANGED serviceVars

\* the roles of a message, and a message of the conversation
SYSTEM == "system"
USER == "user"
ASSISTANT == "assistant"
Message(role, content) == [role |-> role, content |-> content]

\* the labels of the two sections of the augmentation block
SelectedCodeLabel == "Selected Code:"
AdditionalContextLabel == "Additional Context:"

\* additionalContext of streamChatCompletion: a section for the selected
\* text, then one for the retrieval context, each only if it is truthy
additionalContext(userSelection, ragContext) ==
  (IF Truthy(userSelection)
   THEN <<SelectedCodeLabel, "\n">> \o userSelection \o <<"\n", "\n">>
   ELSE <<>>) \o
  (IF ragContext # null /\ ragContext # <<>>
   THEN <<AdditionalContextLabel, "\n">> \o ragContext \o <<"\n", "\n">>
   ELSE <<>>)

\* updatedMessages pushing the augmented user message whatever
\* additionalContext is
updatedMessages_AlwaysAugments(messages, systemContent, userSelection, ragContext) ==
  <<Message(SYSTEM, systemContent)>> \o SubSeq(messages, 1, Len(messages) - 1) \o
  <<Message(USER, messages[Len(messages)].content \o <<"\n", "\n">> \o
                    trim(additionalContext(userSelection, ragContext)))>>

\* updatedMessages of streamChatCompletion for a non-empty conversation
updatedMessages(messages, systemContent, userSelection, ragContext) ==
  <<Message(SYSTEM, systemContent)>> \o SubSeq(messages, 1, Len(messages) - 1) \o
  (IF additionalContext(userSelection, ragContext) # <<>>
   THEN <<Message(USER, messages[Len(messages)].content \o <<"\n", "\n">> \o
                          trim(additionalContext(userSelection, ragContext)))>>
   ELSE <<messages[Len(messages)]>>)

\* the messages of a conversation, the texts the editor selection may hold
\* (none, empty, a text, a line break) and what getRagContext may return
ChatMessages ==
  {Message(USER, <<"q">>), Message(ASSISTANT, <<"a">>), Message(USER, <<>>)}
Selections == {undefined, <<>>, <<"s">>, <<"\n">>}
RagContexts == {null, <<"r">>}
\* what readSystemMessageTemplate renders for a template id
SystemContent(template) == <<"system message of", template>>

\* streamChatCompletion up to the request: the messages it sends
AssembleMessages ==
  /\ call = NoCall
  /\ \E n \in 1..MaxMessages :
       \E messages \in [1..n -> ChatMessages], userSelection \in Selections,
          ragContext \in RagContexts :
         call' = [fn |-> "streamChatCompletion", messages |-> messages,
                  userSelection |-> userSelection, ragContext |-> ragContext,
                  updatedMessages |->
                    updatedMessages(messages, SystemContent(promptTemplate),
                                    userSelection, ragContext)]
  /\ UNCHANGED serviceVars

\* the apiKey of a backend profile: absent, empty, or a key
ApiKeys == {undefined, <<>>, <<"k">>}

\* the template literal `Bearer ${apiKey}`
Bearer(apiKey) == <<"B", "e", "a", "r", "e", "r", " ">> \o ToText(apiKey)

\* the requestOptions of buildStreamRequest for a profile with that apiKey
requestOptions(apiKey) ==
  [method |-> "POST",
   headers |-> [ContentType |-> "application/json",
                Authorization |-> Bearer(apiKey)]]

\* buildStreamRequest for an active provider
BuildStreamRequest ==
  /\ call = NoCall
  /\ \E p \in Providers, apiKey \in ApiKeys :
       call' = [fn |-> "buildStreamRequest", provider |-> p, apiKey |-> apiKey,
                requestOptions |-> requestOptions(apiKey)]
  /\ UNCHANGED serviceVars

\* one call in a behaviour, from the service as constructed
PureInit == Init /\ provider = Ollama

PureNext ==
  \/ DecodeChunk
  \/ ParseMarked
  \/ DecodeResponse
  \/ DecodeFallback
  \/ SimpleChunk
  \/ CombineChunks
  \/ SimpleChunkEnter
  \/ SimpleChunkIterate
  \/ BuildStreamRequest
  \/ AssembleMessages

PureSpec == PureInit /\ [][PureNext]_vars

\* the loop of simpleChunk, once entered, keeps running
PureLiveSpec == PureInit /\ [][PureNext]_vars /\ WF_vars(SimpleChunkIterate)

(* --------------------------- retrieval calls -------------------------- *)

\* the indexed files of the workspace in the order the store returns them,
\* and the text of each
Paths == <<Path("src", "a.ts"), Path("src", "b.ts"), Path("lib", "c.ts")>>
FileTexts == <<(<<"A">>), (<<"B">>), (<<"C", "\n">>)>>
\* the code fragments of the documents table
DocumentTexts == <<(<<"x">>), (<<"y", "\n">>)>>

PathIndex(filePath) == CHOOSE i \in 1..Len(Paths) : Paths[i] = filePath

\* what fs.stat and fs.readFile give for a file: a readable file below the
\* cap, an empty file, a readable file of exactly the cap, a file above the
\* cap, a file whose stat fails, a file whose read fails
FileKinds == {"readable", "empty", "atCap", "oversized", "missing", "unreadable"}
FileState(kind, text) ==
  [exists |-> kind # "missing",
   size |-> CASE kind = "empty" -> 0
              [] kind = "atCap" -> maxFileSize
              [] kind = "oversized" -> OversizedBytes
              [] OTHER -> Len(text),
   readable |-> kind # "unreadable",
   content |-> IF kind = "empty" THEN <<>> ELSE text]

\* rerank scores in tenths, below, at and above the default threshold
Scores == {3, DEFAULT_RERANK_THRESHOLD, 9}
StoredThresholds == {NotStored, Stored(0), Stored(3)}
QueryText == <<"f", "i", "x">>

Environment(db, text, ws, ft, dt, fe, ce, n, kinds, fscores, m, dscores, stored) ==
  [db |-> db, text |-> text, workspaceName |-> ws, fileTable |-> ft,
   documentTable |-> dt, fileEmbedding |-> fe, codeEmbedding |-> ce,
   filePaths |-> SubSeq(Paths, 1, n), fileScores |-> fscores,
   documents |-> SubSeq(DocumentTexts, 1, m), documentScores |-> dscores,
   stored |-> stored,
   fs |-> [filePath \in {Paths[i] : i \in 1..n} |->
             FileState(kinds[PathIndex(filePath)], FileTexts[PathIndex(filePath)])]]

\* the results the reranker may give for n inputs
RerankResults(n, scores) == {NoScores} \cup {ScoresOf(v) : v \in [1..n -> scores]}

\* the two retrieval calls of getRagContext
Retrieval(env) ==
  [fn |-> "getRagContext", env |-> env,
   relevantFiles |-> getRelevantFiles(env, env.text),
   relevantCode |->
     getRelevantCode(env, env.text, getRelevantFiles(env, env.text))]

\* retrieval from a configured store with both tables: every choice of files
\* on disk, of documents, of scores and of the stored threshold
Retrieve ==
  /\ call = NoCall
  /\ \E n \in 0..Len(Paths), m \in 0..Len(DocumentTexts) :
       \E kinds \in [1..n -> FileKinds],
          fscores \in RerankResults(n, Scores),
          dscores \in RerankResults(m, {3, 9}),
          stored \in StoredThresholds :
         call' = Retrieval(Environment(TRUE, QueryText, TRUE, TRUE, TRUE, TRUE,
                                       TRUE, n, kinds, fscores, m, dscores,
                                       stored))
  /\ UNCHANGED serviceVars

\* retrieval under every choice of what is configured and present, over two
\* readable files and two documents that all score above the threshold
RetrieveDegraded ==
  /\ call = NoCall
  /\ \E db \in BOOLEAN, text \in {<<>>, QueryText}, ws \in BOOLEAN,
        ft \in BOOLEAN, dt \in BOOLEAN, fe \in BOOLEAN, ce \in BOOLEAN,
        fscores \in {NoScores, ScoresOf(<<9, 9>>)},
        dscores \in {NoScores, ScoresOf(<<9, 9>>)} :
       call' = Retrieval(Environment(db, text, ws, ft, dt, fe, ce, 2,
                                     [i \in 1..2 |-> "readable"], fscores, 2,
                                     dscores, NotStored))
  /\ UNCHANGED serviceVars

RetrievalNext ==
  \/ Retrieve
  \/ RetrieveDegraded

RetrievalSpec == PureInit /\ [][RetrievalNext]_vars

(* ------------------------------- claims ------------------------------- *)

\* the step is a call of destroyStream
DestroyStep == stopGenerationPosts' = stopGenerationPosts + 1
\* the step is a cancel addressed to a streaming session
CancelOfStreaming == controller # 0 /\ Streaming(controller)
\* C1: at most one transport stream is live: while an earlier stream is
\* streaming and its abort handle was not triggered, no later transport has
\* been opened.
C1_PreviousAbortedBeforeOpen ==
  \A s, t \in Sessions :
    (s < t /\ Streaming(s) /\ ~aborted[s]) => stream[t] = "none"

\* C2: the accumulated text is the concatenation, in arrival order, of the
\* deltas of the chunks of the latest session's own stream; no chunk of an
\* earlier session's stream is appended to it.
C2_BufferHoldsOwnChunksOnly == completion = sessionText

\* C3: every session that entered Streaming has at most one terminal
\* twinnyOnEnd message, and exactly one once its stream has closed.
C3_ExactlyOneTerminalEvent ==
  \A s \in Sessions :
    entered[s] => /\ terminal[s] <= 1
                  /\ Closed(s) => terminal[s] = 1

\* C4 as stated: a cancel during Streaming aborts the transport and posts a
\* terminal end message that carries the accumulated text and no error flag,
\* and a cancelled session never ends through the error path.
C4_CancelEndCarriesText ==
  /\ [][(DestroyStep /\ CancelOfStreaming) =>
          /\ aborted'[controller]
          /\ lastMsg'.type = twinnyOnEnd
          /\ lastMsg'.completion = completion
          /\ ~lastMsg'.error]_vars
  /\ [][\A s \in Sessions :
          (cancelRequested[s] /\ Closed(s)') => stream'[s] = "cancelled"]_vars

\* C4 as amended: the terminal end message of destroyStream carries the
\* accumulated text with its leading whitespace removed, no error flag, the
\* transport is aborted, and a cancelled session (by destroyStream or by the
\* stop-generation message) never ends through the error path.
C4_CancelEndCarriesTrimmedText ==
  /\ [][(DestroyStep /\ CancelOfStreaming) =>
          /\ aborted'[controller]
          /\ lastMsg'.type = twinnyOnEnd
          /\ lastMsg'.completion = trimStart(completion)
          /\ ~lastMsg'.error]_vars
  /\ [][\A s \in Sessions :
          (cancelRequested[s] /\ Closed(s)') =>
            (stream'[s] = "cancelled" /\ ~lastMsg'.error)]_vars

\* a streaming session was cancelled by destroyStream while the accumulated
\* text began with whitespace
C4_Witness ==
  /\ lastMsg.by = "destroyStream"
  /\ lastMsg.session # 0
  /\ aborted[lastMsg.session]
  /\ completion # <<>>
  /\ lastMsg.completion # completion

C6_IdleCancelIsNoOp ==
  [][(DestroyStep /\ Idle) =>
       /\ lastMsg' = lastMsg
       /\ completion' = completion
       /\ controller' = controller
       /\ generatingText' = generatingText]_vars

\* C7: once a session that entered Streaming has reached a terminal state and
\* no other session is in flight, the accumulated text is empty and no abort
\* handle is held.
C7_TerminalStateClearsSession ==
  (Idle /\ \E s \in Sessions : entered[s] /\ Closed(s)) =>
    (completion = <<>> /\ controller = 0)

\* C8: while Streaming, a session with an on-end handler has posted no
\* incremental message, and any other session exactly one for each chunk it
\* received.
C8_IncrementalEventPerChunk ==
  \A s \in Sessions :
    Streaming(s) => incremental[s] = IF onEndHandler[s] THEN 0 ELSE chunks[s]

\* C9: when a stream closes normally, the caller's on-end handler, if there is
\* one, is called exactly once with the accumulated text, and one terminal
\* message is posted with or without a handler; the handler is called at no
\* other step than the close of a stream that has one.
C9_NormalEndCallsHandlerOnce ==
  /\ [][\A s \in Sessions :
          (Streaming(s) /\ stream'[s] = "ended") =>
            /\ terminal'[s] = terminal[s] + 1
            /\ lastMsg'.type = twinnyOnEnd
            /\ lastMsg'.session = s
            /\ ~lastMsg'.error
            /\ IF onEndHandler[s]
               THEN handlerCalls' = handlerCalls + 1 /\ handlerText' = completion
               ELSE handlerCalls' = handlerCalls /\ handlerText' = handlerText]_vars
  /\ [][handlerCalls' # handlerCalls =>
          \E s \in Sessions : Streaming(s) /\ onEndHandler[s] /\ Closed(s)']_vars

\* a stream with a handler closed normally after it had delivered text, and
\* the handler was called once with that text
C9_Witness ==
  /\ lastMsg.by = "onStreamEnd"
  /\ lastMsg.session # 0
  /\ stream[lastMsg.session] = "ended"
  /\ ~lastMsg.hasValue
  /\ handlerCalls = 1
  /\ handlerText = completion
  /\ completion # <<>>

C11_PeerRouteOpensNoStream ==
  symmetryConnected =>
    /\ nextSession = 0
    /\ lastRoute.kind # "none" => lastRoute.route = "peer"

\* C12: the Retrieval Engine is invoked for a request only if the RAG flag is
\* set and the peer-route flag is not.
C12_RetrievalExcludesPeerRoute ==
  lastRoute.retrieval => (ragEnabled /\ ~symmetryConnected)

\* the Retrieval Engine was invoked for a request that went out directly
C12_Witness ==
  /\ lastRoute.retrieval
  /\ lastRoute.route = "direct"
  /\ nextSession > 0

\* C13: within the bound of the behaviour, every session that enters
\* Streaming reaches a terminal state.
C13_StreamingReachesTerminal ==
  \A s \in Sessions :
    (Streaming(s) /\ steps < MaxSteps) ~> (Closed(s) \/ steps = MaxSteps)

\* C14: with no active provider no transport is opened, no request goes out
\* and the controller is neither streaming nor left loading.
C14_NoProviderStaysIdle ==
  provider = NoProvider =>
    /\ nextSession = 0
    /\ lastRoute.route # "direct"
    /\ Idle
    /\ ~loading

\* C15: a raw chunk that fails to parse decodes, for every provider and both
\* decoders, to the empty string, so appending it adds nothing.
C15_UnparsableChunkDecodesEmpty ==
  (call.fn = "decodeChunk" /\ ~call.parsed.defined) =>
    (call.result = <<>> /\ ToText(call.result) = <<>>)

\* C16: for the providers litellm and ollama a response whose content is the
\* literal text undefined decodes to the empty string.
C16_LiteralUndefinedDecodesEmpty ==
  (/\ call.fn = "decodeResponse"
   /\ call.provider \in {LiteLLM, Ollama}
   /\ call.delta = UndefinedText) => call.result = <<>>

\* C17: a JSON text parses to the same value bare and behind the SSE marker.
C17_MarkerStrippedBeforeParse ==
  call.fn = "safeParseJsonResponse" => call.marked = call.bare

\* C18 as stated: for the four provider kinds and every delta text, decoding
\* a well-formed response that carries the delta returns the delta.
C18_DecoderRoundTrip ==
  (/\ call.fn = "decodeResponse"
   /\ call.provider \in {Ollama, OpenWebUI, LlamaCpp, LiteLLM}) =>
    call.result = call.delta

\* C18 as amended: the round trip holds for every delta text but the literal
\* text undefined, which the chat decoder of litellm turns into the empty
\* string.
C18_DecoderRoundTripButUndefined ==
  (/\ call.fn = "decodeResponse"
   /\ call.provider \in {Ollama, OpenWebUI, LlamaCpp, LiteLLM}) =>
    /\ call.delta # UndefinedText => call.result = call.delta
    /\ (call.delta = UndefinedText /\ call.provider = LiteLLM
          /\ call.decoder = "chat") => call.result = <<>>

\* the chat decoder of llamacpp returned the delta of a flat response
C18_Witness ==
  /\ call.fn = "decodeResponse"
  /\ call.provider = LlamaCpp
  /\ call.decoder = "chat"
  /\ call.delta = <<" ", "a">>
  /\ call.result = call.delta

\* C19 as stated: for content shorter than minSize, of every length from 0,
\* and every maxSize and overlap, simpleChunk returns one fragment, the whole
\* content.
C19_ShortContentIsOneFragment ==
  (call.fn = "simpleChunk" /\ Len(call.content) < call.minSize) =>
    call.result = <<call.content>>

\* C19 as amended: for content shorter than minSize simpleChunk returns no
\* fragment when the content is empty, and one fragment, the whole content,
\* when it is not empty and not longer than maxSize.
C19_ShortContentWithinWindow ==
  (call.fn = "simpleChunk" /\ Len(call.content) < call.minSize) =>
    IF call.content = <<>> THEN call.result = <<>>
    ELSE Len(call.content) <= call.maxSize => call.result = <<call.content>>

\* content of three characters, shorter than minSize and than maxSize, was
\* returned as the one fragment
C19_Witness ==
  /\ call.fn = "simpleChunk"
  /\ Len(call.content) = 3
  /\ call.minSize = 5
  /\ call.maxSize = 4
  /\ call.overlap = 1
  /\ call.result = <<call.content>>

\* C20: when no input fragment is longer than maxSize, combineChunks emits no
\* fragment longer than maxSize.
C20_CombineKeepsMaxSize ==
  (/\ call.fn = "combineChunks"
   /\ \A i \in 1..Len(call.chunks) : Len(call.chunks[i]) <= call.maxSize) =>
    \A i \in 1..Len(call.result) : Len(call.result[i]) <= call.maxSize

\* C21: when the store is not configured, the query text is empty, the
\* workspace has no name, the table does not exist, no embedding is returned
\* or the reranker returns no scores, getRelevantFiles returns the empty
\* sequence and getRelevantCode the empty text, and neither raises.
C21_RetrievalDegradesToEmpty ==
  call.fn = "getRagContext" =>
    /\ call.relevantCode # Throw
    /\ (\/ ~call.env.db
        \/ call.env.text = <<>>
        \/ ~call.env.workspaceName
        \/ ~call.env.fileTable
        \/ ~call.env.fileEmbedding
        \/ ~call.env.fileScores.ok) => call.relevantFiles = <<>>
    /\ (\/ ~call.env.db
        \/ call.env.text = <<>>
        \/ ~call.env.workspaceName
        \/ ~call.env.documentTable
        \/ ~call.env.codeEmbedding
        \/ ~call.env.documentScores.ok) => call.relevantCode = <<>>

\* the file stage returned files that score above the threshold, the
\* reranker returned no scores for the documents, and the code is empty
C21_Witness ==
  /\ call.fn = "getRagContext"
  /\ Len(call.relevantFiles) = 2
  /\ call.relevantFiles[1][2] > getRerankThreshold(call.env.stored)
  /\ call.env.documents # <<>>
  /\ ~call.env.documentScores.ok
  /\ call.relevantCode = <<>>

\* the character occurs in the text
Occurs(char, t) == \E i \in 1..Len(t) : t[i] = char

\* the code stage has passed its guards and partitions by the threshold
CodeStageRuns ==
  /\ call.fn = "getRagContext"
  /\ call.env.db /\ call.env.text # <<>> /\ call.env.workspaceName
  /\ call.env.documentTable /\ call.env.codeEmbedding
  /\ call.env.documentScores.ok

\* C22: in the code stage the content of a readable file of the file stage
\* is in the code block if and only if the score of the file is above the
\* rerank threshold, and the content of a code candidate is in it if and
\* only if the score of the candidate is above the threshold; a score equal
\* to the threshold is discarded.
C22_ThresholdPartition ==
  CodeStageRuns =>
    /\ \A i \in 1..Len(call.relevantFiles) :
         call.env.fs[call.relevantFiles[i][1]] \in
             {FileState("readable", FileTexts[i]), FileState("atCap", FileTexts[i])}
           => (Occurs(FileTexts[i][1], call.relevantCode)
                 <=> call.relevantFiles[i][2] > getRerankThreshold(call.env.stored))
    /\ \A j \in 1..Len(call.env.documents) :
         Occurs(DocumentTexts[j][1], call.relevantCode)
           <=> call.env.documentScores.values[j] > getRerankThreshold(call.env.stored)

\* with the threshold 5, a.ts at 9 is in the code block, b.ts at 3 and c.ts
\* at 5 are not
C22_Witness ==
  /\ CodeStageRuns
  /\ getRerankThreshold(call.env.stored) = 5
  /\ Len(call.relevantFiles) = 3
  /\ call.relevantFiles[1][2] = 9
  /\ call.relevantFiles[2][2] = 3
  /\ call.relevantFiles[3][2] = 5
  /\ \A i \in 1..3 : call.env.fs[Paths[i]] = FileState("readable", FileTexts[i])
  /\ Occurs("A", call.relevantCode)
  /\ ~Occurs("B", call.relevantCode)
  /\ ~Occurs("C", call.relevantCode)

\* the state of the i-th file of the file stage is of one of the kinds
FileIs(i, kinds) ==
  \E kind \in kinds : call.env.fs[call.relevantFiles[i][1]] = FileState(kind, FileTexts[i])

\* C23: in the hydration of the files that score above the threshold, a file
\* above 5120 bytes and a file whose stat or read fails contribute nothing
\* and raise nothing, and every readable file of the batch, before or after
\* them, is in the code block.
C23_HydrationIsolatesFailures ==
  CodeStageRuns =>
    /\ call.relevantCode # Throw
    /\ \A i \in 1..Len(call.relevantFiles) :
         call.relevantFiles[i][2] > getRerankThreshold(call.env.stored) =>
           /\ FileIs(i, {"oversized", "missing", "unreadable"})
                => ~Occurs(FileTexts[i][1], call.relevantCode)
           /\ FileIs(i, {"readable", "atCap"})
                => Occurs(FileTexts[i][1], call.relevantCode)

\* three files above the threshold: the second is above the cap, the first
\* and the third are in the code block
C23_Witness ==
  /\ CodeStageRuns
  /\ Len(call.relevantFiles) = 3
  /\ \A i \in 1..3 : call.relevantFiles[i][2] > getRerankThreshold(call.env.stored)
  /\ FileIs(1, {"readable"})
  /\ FileIs(2, {"oversized"})
  /\ FileIs(3, {"readable"})
  /\ call.env.fs[Paths[2]].size = 6000
  /\ Occurs("A", call.relevantCode)
  /\ ~Occurs("B", call.relevantCode)
  /\ Occurs("C", call.relevantCode)

\* C27: the code block is the admitted file contents joined by newlines, a
\* blank line, the admitted code fragments joined by newlines, the whole
\* trimmed; nothing else separates two items of a group.
C27_CodeBlockLayout ==
  CodeStageRuns =>
    call.relevantCode =
      trim(join(<<join(filterBoolean(readFileChunks(call.env.fs, call.relevantFiles,
                                       getRerankThreshold(call.env.stored))),
                       <<"\n">>),
                  join(filterBoolean(documentChunks(call.env.documents,
                                       call.env.documentScores.values,
                                       getRerankThreshold(call.env.stored), 1)),
                       <<"\n">>)>>,
                <<"\n", "\n">>))

\* the place of the character in the text
Position(char, t) == CHOOSE i \in 1..Len(t) : t[i] = char

\* the file stage has passed its guards and the reranker returned scores
FileStageRanks ==
  /\ call.fn = "getRagContext"
  /\ call.env.db /\ call.env.text # <<>> /\ call.env.workspaceName
  /\ call.env.fileTable /\ call.env.fileEmbedding
  /\ call.env.fileScores.ok

\* C28: rerankFiles returns one pair per path, the i-th pair holding the
\* i-th path of the store and the i-th score of the reranker, and the code
\* stage puts the contents of the files in that order.
C28_FileStageKeepsStoreOrder ==
  FileStageRanks =>
    /\ Len(call.relevantFiles) = Len(call.env.filePaths)
    /\ \A i \in 1..Len(call.relevantFiles) :
         /\ call.relevantFiles[i][1] = call.env.filePaths[i]
         /\ call.relevantFiles[i][2] = call.env.fileScores.values[i]
    /\ \A i, j \in 1..Len(call.env.filePaths) :
         (/\ i < j
          /\ Occurs(FileTexts[i][1], call.relevantCode)
          /\ Occurs(FileTexts[j][1], call.relevantCode))
           => Position(FileTexts[i][1], call.relevantCode)
                < Position(FileTexts[j][1], call.relevantCode)

\* a.ts at 5 and b.ts at 9, both above the stored threshold 3: the pairs and
\* the contents are in the order of the store, the lower score first
C28_Witness ==
  /\ FileStageRanks
  /\ call.env.stored = Stored(3)
  /\ call.relevantFiles = <<(<<Paths[1], 5>>), (<<Paths[2], 9>>)>>
  /\ Occurs("A", call.relevantCode)
  /\ Occurs("B", call.relevantCode)
  /\ Position("A", call.relevantCode) < Position("B", call.relevantCode)

\* C24: on the default branch both decoders return the empty string, and do
\* not raise, for a parsed payload without choices (no choices field or an
\* empty list) and for a choices[0] content that is the literal text
\* undefined.
C24_FallbackDecodesNoChoicesEmpty ==
  (call.fn = "decodeFallback" /\ call.data.defined) =>
    /\ call.data.choices \in {"absent", "empty"} => call.result = <<>>
    /\ (/\ call.data.choices = "one"
        /\ IF call.decoder = "chat" THEN call.data.deltaContent = UndefinedText
           ELSE call.data.text = UndefinedText) => call.result = <<>>

\* the last n characters of the text, none for n = 0
Suffix(t, n) == SubSeq(t, Len(t) - Min(n, Len(t)) + 1, Len(t))

\* C25: in every iteration of combineChunks in which the accumulator and the
\* next fragment together exceed maxSize, an accumulator of at least minSize
\* characters is flushed as a fragment and the new accumulator starts with
\* the last overlap characters of the flushed text, followed by the next
\* fragment; a shorter accumulator is not flushed and absorbs the fragment.
C25_FlushSeedsOverlap ==
  call.fn = "combineChunks" =>
    \A k \in 1..Len(call.trace) :
      LET step == call.trace[k]
          seed == Suffix(step.before, call.overlap)
      IN  Len(step.before) + Len(step.chunk) > call.maxSize =>
            IF Len(step.before) >= call.minSize
            THEN /\ step.flushed
                 /\ \E i \in 1..Len(call.result) : call.result[i] = step.before
                 /\ startsWith(step.accumulator, seed)
                 /\ Len(step.accumulator) >= Len(seed) + Len(step.chunk)
                 /\ Suffix(step.accumulator, Len(step.chunk)) = step.chunk
            ELSE /\ ~step.flushed
                 /\ step.accumulator = step.before \o <<" ">> \o step.chunk

\* the loop of simpleChunk is at its test
InSimpleChunk == call # NoCall /\ call.fn = "simpleChunkLoop"

\* C26: for every content, every minSize, every maxSize from 1 and every
\* overlap from 0, overlap >= maxSize included, each iteration of simpleChunk
\* moves the window start forward, by maxSize - overlap when overlap is below
\* maxSize and the loop goes on; the loop ends; and the fragments are those
\* that the same inputs always give.
C26_SimpleChunkTerminates ==
  /\ [][(InSimpleChunk /\ call.running) =>
          /\ call'.start > call.start
          /\ call'.start <= Len(call.content)
          /\ (call.overlap < call.maxSize /\ call'.running) =>
               call'.start = call.start + call.maxSize - call.overlap]_vars
  /\ [](InSimpleChunk ~> (InSimpleChunk /\ ~call.running))
  /\ []((InSimpleChunk /\ ~call.running) =>
          call.result = simpleChunk(call.content, call.minSize, call.maxSize,
                                    call.overlap))

\* with overlap above maxSize the loop made two iterations over four
\* characters and ended
C26_Witness ==
  /\ InSimpleChunk
  /\ ~call.running
  /\ Len(call.content) = 4
  /\ call.maxSize = 2
  /\ call.overlap = 3
  /\ call.minSize = 0
  /\ call.start = 4
  /\ Len(call.result) = 2

\* C29: the request buildStreamRequest builds has the method POST, and its
\* headers hold an Authorization header, which is the bearer of the key, if
\* and only if the profile has an API key.
C29_BearerOnlyWithKey ==
  (call # NoCall /\ call.fn = "buildStreamRequest") =>
    /\ call.requestOptions.method = "POST"
    /\ IF Truthy(call.apiKey)
       THEN /\ "Authorization" \in DOMAIN call.requestOptions.headers
            /\ call.requestOptions.headers.Authorization = Bearer(call.apiKey)
       ELSE \/ "Authorization" \notin DOMAIN call.requestOptions.headers
            \/ call.requestOptions.headers.Authorization = undefined

\* C30: a chat request, whatever template requests came before it, renders
\* its system message with no template id, and the incremental and terminal
\* events of its stream carry an empty template type.
C30_NoTemplateLeak ==
  lastRoute.kind = "chat" =>
    /\ lastRoute.systemTemplate = ""
    /\ (/\ lastRoute.route = "direct"
        /\ lastMsg.session = nextSession
        /\ lastMsg.by \in {"onStreamData", "onStreamEnd"}
        /\ lastMsg.hasValue) => lastMsg.template = ""

\* C31: the generating flag is true after the step in which a stream starts,
\* false after every step in which a session reaches a terminal state (normal
\* end, transport error) or is cancelled by destroyStream, and so false
\* whenever the controller is Idle.
C31_GeneratingFlagTracksSession ==
  /\ [](Idle => ~generatingText)
  /\ [][(\E s \in Sessions : stream[s] = "connecting" /\ stream'[s] = "open")
          => generatingText']_vars
  /\ [][(\E s \in Sessions : Streaming(s) /\ Closed(s)') => ~generatingText']_vars
  /\ [][(DestroyStep /\ CancelOfStreaming) => ~generatingText']_vars

\* the call is the message assembly of streamChatCompletion
Assembled == call # NoCall /\ call.fn = "streamChatCompletion"

\* C32: for n input messages streamChatCompletion sends n + 1: the system
\* message, the first n - 1 input messages unchanged and in order, and a last
\* message.  Without selected text and retrieval context the last message is
\* the input's last message unchanged; otherwise it is a user message whose
\* content is the original text, a blank line, and the labeled sections, the
\* section of the selection present if and only if the selection is not
\* empty, that of the retrieval context if and only if there is one.
C32_AssemblyPreservesConversation ==
  Assembled =>
    LET n == Len(call.messages)
        last == call.updatedMessages[n + 1]
        selected == Truthy(call.userSelection)
        retrieved == call.ragContext # null /\ call.ragContext # <<>>
    IN  /\ Len(call.updatedMessages) = n + 1
        /\ call.updatedMessages[1].role = SYSTEM
        /\ \A i \in 1..(n - 1) : call.updatedMessages[i + 1] = call.messages[i]
        /\ IF ~selected /\ ~retrieved THEN last = call.messages[n]
           ELSE /\ last.role = USER
                /\ startsWith(last.content, call.messages[n].content \o <<"\n", "\n">>)
                /\ Occurs(SelectedCodeLabel, last.content) <=> selected
                /\ Occurs(AdditionalContextLabel, last.content) <=> retrieved
                /\ call.userSelection = <<"s">> => Occurs("s", last.content)
                /\ retrieved => Occurs("r", last.content)

\* three messages with a selection and a retrieval context: four are sent,
\* the last holding the text and both sections
C32_Witness ==
  /\ Assembled
  /\ call.messages = <<Message(USER, <<"q">>), Message(ASSISTANT, <<"a">>),
                       Message(USER, <<"q">>)>>
  /\ Len(call.updatedMessages) = 4
  /\ call.updatedMessages[4] =
       Message(USER, <<"q", "\n", "\n", SelectedCodeLabel, "\n", "s", "\n", "\n",
                       AdditionalContextLabel, "\n", "r">>)

\* the place in the content of the first character of a returned fragment:
\* the characters of the content are distinct
FragmentStart(content, fragment) ==
  CHOOSE a \in 1..Len(content) : content[a] = fragment[1]

\* the positions of the content that the fragment holds
FragmentRange(content, fragment) ==
  FragmentStart(content, fragment)..(FragmentStart(content, fragment) + Len(fragment) - 1)

\* the fragment is the slice of the content at the positions of its range
IsSlice(content, fragment) ==
  /\ fragment # <<>>
  /\ \E a \in 1..Len(content) : content[a] = fragment[1]
  /\ fragment = SubSeq(content, FragmentStart(content, fragment),
                       FragmentStart(content, fragment) + Len(fragment) - 1)

\* C33: for minSize <= maxSize, every position of the content lies in a
\* returned fragment, every fragment is a contiguous slice of the content of
\* at most maxSize characters, the fragments are in increasing start order,
\* and for overlap < maxSize consecutive fragments share exactly overlap
\* characters.
C33_SimpleChunkCoversContent ==
  (/\ call # NoCall
   /\ call.fn = "simpleChunk"
   /\ call.minSize <= call.maxSize) =>
    /\ \A i \in 1..Len(call.result) :
         /\ IsSlice(call.content, call.result[i])
         /\ Len(call.result[i]) <= call.maxSize
    /\ \A p \in 1..Len(call.content) :
         \E i \in 1..Len(call.result) : p \in FragmentRange(call.content, call.result[i])
    /\ \A i \in 1..(Len(call.result) - 1) :
         /\ FragmentStart(call.content, call.result[i])
              < FragmentStart(call.content, call.result[i + 1])
         /\ call.overlap < call.maxSize =>
              Cardinality(FragmentRange(call.content, call.result[i]) \cap
                          FragmentRange(call.content, call.result[i + 1]))
                = call.overlap

\* four characters with maxSize 3 and overlap 1: the fragments abc and cd
\* cover the content and share one character
C33_Witness ==
  /\ call # NoCall
  /\ call.fn = "simpleChunk"
  /\ call.content = Content(4)
  /\ call.minSize = 2
  /\ call.maxSize = 3
  /\ call.overlap = 1
  /\ call.result = <<SubSeq(Content(4), 1, 3), SubSeq(Content(4), 3, 4)>>

====
